---- MODULE Spec2Model ----
(***************************************************************************)
(* Model of the SAS material-supply dashboard's data core                  *)
(* (src/utils/data_loader.py), of the upload page that feeds it            *)
(* (src/pages/0_Data_Upload.py), of the home page (src/app.py) and of the  *)
(* model training behind the prediction page (src/utils/ml_model.py,       *)
(* src/utils/feature_engineering.py).                                      *)
(*                                                                         *)
(* A DataFrame is a record [ok, cols, rows]: ok = FALSE is Python's None,  *)
(* cols is the set of OPTIONAL columns the table has (the required ones    *)
(* are guaranteed by the upload page's validate_columns), rows is the      *)
(* sequence of row records.  Every row carries `index`, its DataFrame      *)
(* index label, which pandas keeps through boolean filtering.              *)
(*                                                                         *)
(* Missing values: NaN for numbers (keys, quantities, prices), NaT for     *)
(* dates, "" for plain strings (station, voucher mode), << >> for texts    *)
(* that are searched (registration, receiver; sequences of characters).    *)
(***************************************************************************)
EXTENDS Integers, Sequences, FiniteSets, TLC

\* ------------------------------------------------------------------ bounds
MaxWP == 2
MaxItems == 2
MaxUtil == 2
MaxPlanned == 2
MaxBatch == 2

\* ------------------------------------------------------- missing values
NaN == 0 - 99
NaT == 0 - 98
\* a cell of a date column that pd.to_datetime cannot parse
BadDate == 0 - 1
NoStr == ""
NoText == << >>

IsNa(x) == x = NaN \/ x = NaT
NotNa(x) == ~IsNa(x)

None == [ok |-> FALSE, cols |-> {}, rows |-> << >>]
Frame(cols, rows) == [ok |-> TRUE, cols |-> cols, rows |-> rows]

\* a conversion that keeps the unparseable value
ToDatetime_Keep(d) == d

\* pd.to_datetime(..., errors='coerce')
ToDatetime(d) == IF d = BadDate THEN NaT ELSE d

\* comparisons of a datetime column with a scalar: False when either is NaT
DateLE(a, b) == NotNa(a) /\ NotNa(b) /\ a <= b
DateGE(a, b) == NotNa(a) /\ NotNa(b) /\ a >= b
\* == on an object (string) column: a missing value equals nothing
StrEq(a, b) == a # NoStr /\ b # NoStr /\ a = b
TextEq(a, b) == a # NoText /\ b # NoText /\ a = b
\* == on a numeric key: NaN equals nothing
KeyEq(a, b) == NotNa(a) /\ NotNa(b) /\ a = b

\* ------------------------------------------------------ sequence helpers
RECURSIVE SumSeq(_)
SumSeq(s) == IF s = << >> THEN 0 ELSE Head(s) + SumSeq(Tail(s))

Abs(x) == IF x < 0 THEN 0 - x ELSE x

Col(rows, f) == [i \in 1..Len(rows) |-> rows[i][f]]
DropNa(s) == SelectSeq(s, NotNa)
Range(s) == {s[i] : i \in 1..Len(s)}
\* a sum that is missing when nothing is summed (min_count = 1)
SeriesSum_MinCount(s) == IF DropNa(s) = << >> THEN NaN ELSE SumSeq(DropNa(s))

\* Series.sum(): missing values are skipped, the sum of nothing is 0
SeriesSum(s) == SumSeq(DropNa(s))
MapAbs(s) == [i \in 1..Len(s) |-> IF IsNa(s[i]) THEN s[i] ELSE Abs(s[i])]
\* Series.abs().sum()
SeriesAbsSum(s) == SeriesSum(MapAbs(s))
\* Series.min() / Series.max() of a datetime column: NaT when all are missing
SeriesMin(s) ==
    LET v == Range(DropNa(s))
    IN IF v = {} THEN NaT ELSE CHOOSE x \in v : \A y \in v : x <= y
SeriesMax(s) ==
    LET v == Range(DropNa(s))
    IN IF v = {} THEN NaT ELSE CHOOSE x \in v : \A y \in v : x >= y

\* Series.unique(): distinct values in order of first appearance
RECURSIVE Unique(_)
Unique(s) ==
    IF s = << >> THEN << >>
    ELSE LET r == Unique(SubSeq(s, 1, Len(s) - 1))
             x == s[Len(s)]
         IN IF x \in Range(r) THEN r ELSE Append(r, x)

\* all sequences over S of length at most n
SeqUpTo(S, n) == UNION {[1..k -> S] : k \in 0..n}

\* ------------------------------------------------------------ loaders
\* the names of the session-state keys and of the memoized loaders
REQUIRED_KEYS ==
    {"uploaded_workpacks", "uploaded_utilization",
     "uploaded_consumption", "uploaded_planned"}
Loaders ==
    {"load_workpacks", "load_utilization", "load_consumption_detailed",
     "load_planned_material", "load_planned_material_detailed"}

\* is_data_uploaded(): every key is in the session and not None
is_data_uploaded(ss) == \A k \in REQUIRED_KEYS : ss[k].ok

\* body of load_workpacks: dates coerced, duration derived
WorkpackRow(r) ==
    LET sd == ToDatetime(r.start_date)
        ed == ToDatetime(r.end_date)
    IN [index |-> r.index, wpno_i |-> r.wpno_i, ac_registr |-> r.ac_registr,
        station |-> r.station, start_date |-> sd, end_date |-> ed,
        duration_days |-> IF IsNa(sd) \/ IsNa(ed) THEN NaN ELSE ed - sd]
load_workpacks(ss) ==
    LET t == ss["uploaded_workpacks"]
    IN IF ~t.ok THEN None
       ELSE Frame(t.cols, [i \in 1..Len(t.rows) |-> WorkpackRow(t.rows[i])])

\* body of load_utilization
UtilRow(r) ==
    [index |-> r.index, ac_registr |-> r.ac_registr,
     date |-> ToDatetime(r.date), tah |-> r.tah, tac |-> r.tac]
load_utilization(ss) ==
    LET t == ss["uploaded_utilization"]
    IN IF ~t.ok THEN None
       ELSE Frame(t.cols, [i \in 1..Len(t.rows) |-> UtilRow(t.rows[i])])

consumable_modes == {"AA", "EA", "AS", "ES"}
rotable_modes == {"YA", "YE"}
\* a categorisation that knows the consumable voucher modes only
MaterialCategory_NoRotable(vm) == IF vm \in consumable_modes THEN "consumable" ELSE "other"
MaterialCategory(vm) == IF vm \in consumable_modes THEN "consumable" ELSE "rotable"

\* the loader without its voucher-mode filter
VmFilter_KeepAll(r) == r.vm = r.vm

\* df[df['vm'].isin(consumable_modes + rotable_modes)]
VmFilter(r) == r.vm \in (consumable_modes \cup rotable_modes)

\* body of load_consumption_detailed: date coerced, voucher modes filtered,
\* material_category added
ConsumptionRow(r) ==
    [index |-> r.index, wpno_i |-> r.wpno_i, ac_registr |-> r.ac_registr,
     receiver |-> r.receiver, station |-> r.station,
     del_date |-> ToDatetime(r.del_date), qty |-> r.qty,
     average_price |-> r.average_price, vm |-> r.vm,
     material_category |-> MaterialCategory(r.vm)]
load_consumption_detailed(ss) ==
    LET t == ss["uploaded_consumption"]
    IN IF ~t.ok THEN None
       ELSE Frame(t.cols, [i \in 1..Len(SelectSeq(t.rows, VmFilter)) |->
                              ConsumptionRow(SelectSeq(t.rows, VmFilter)[i])])

\* sorted sequence of a finite set of numbers (groupby sorts its keys)
RECURSIVE SortedSeq(_)
SortedSeq(S) ==
    IF S = {} THEN << >>
    ELSE LET m == CHOOSE x \in S : \A y \in S : x <= y
         IN <<m>> \o SortedSeq(S \ {m})

\* 'partno': 'count' counts the non-missing part numbers of the group
CountNotNa(s) == Len(DropNa(s))

\* one row of df_clean.groupby('wpno_i').agg({...})
PlannedGroup(rows, k) ==
    LET g == SelectSeq(rows, LAMBDA r : r.wpno_i = k)
    IN [wpno_i |-> k,
        planned_parts_count |-> CountNotNa(Col(g, "partno")),
        planned_qty |-> SeriesSum(Col(g, "qty")),
        planned_confirmed_qty |-> SeriesSum(Col(g, "confirmed_qty")),
        planned_cost |-> SeriesSum(Col(g, "average_price"))]

\* body of load_planned_material (planned_avg_price, a quotient nothing
\* downstream reads, is not represented)
load_planned_material(ss) ==
    LET t == ss["uploaded_planned"]
        clean == SelectSeq(t.rows, LAMBDA r : NotNa(r.wpno_i))
        filled == [i \in 1..Len(clean) |->
                     IF "confirmed_qty" \in t.cols THEN clean[i]
                     ELSE [clean[i] EXCEPT !.confirmed_qty = 0]]
        keys == SortedSeq(Range(Col(filled, "wpno_i")))
    IN IF ~t.ok THEN None
       ELSE Frame(t.cols \cup {"confirmed_qty"},
                  [i \in 1..Len(keys) |-> PlannedGroup(filled, keys[i])])

\* body of load_planned_material_detailed: optional columns defaulted
load_planned_material_detailed(ss) ==
    LET t == ss["uploaded_planned"]
    IN IF ~t.ok THEN None
       ELSE Frame(t.cols \cup {"confirmed_qty"},
                  [i \in 1..Len(t.rows) |->
                     IF "confirmed_qty" \in t.cols THEN t.rows[i]
                     ELSE [t.rows[i] EXCEPT !.confirmed_qty = 0]])

\* ------------------------------------------------------------ matcher
\* the matcher's three outcomes: a DataFrame, None, or an exception that
\* leaves the function (a KeyError on a column the table does not have)
Raised == [ok |-> FALSE, cols |-> {"raised"}, rows |-> << >>]

\* the station codes of the model in sorted order: Series.mode() returns
\* the most frequent values sorted ascending
StationOrder == <<"AMS", "CPH">>
StationRank(s) == CHOOSE i \in 1..Len(StationOrder) : StationOrder[i] = s

\* matches['station'].mode()[0] if len(matches['station'].mode()) > 0
\* else matches['station'].iloc[0]
StationMode(matches) ==
    LET st == SelectSeq(Col(matches, "station"), LAMBDA x : x # NoStr)
        Freq(x) == Cardinality({i \in 1..Len(st) : st[i] = x})
        modes == {x \in Range(st) : \A y \in Range(st) : Freq(x) >= Freq(y)}
    IN IF modes # {}
       THEN CHOOSE x \in modes : \A y \in modes : StationRank(x) <= StationRank(y)
       ELSE matches[1].station

\* the quantity summed with its sign
ConsumedQty_Signed(matches) == SeriesSum(Col(matches, "qty"))
\* the monetary field taken as a unit price
ConsumedCost_TimesQty(matches) ==
    SumSeq([i \in 1..Len(matches) |->
              IF IsNa(matches[i].average_price) \/ IsNa(matches[i].qty) THEN 0
              ELSE matches[i].average_price * Abs(matches[i].qty)])

\* matches['qty'].abs().sum()
ConsumedQty(matches) == SeriesAbsSum(Col(matches, "qty"))
\* matches['average_price'].sum()
ConsumedCost(matches) == SeriesSum(Col(matches, "average_price"))

OfCategory(matches, cat) == SelectSeq(matches, LAMBDA c : c.material_category = cat)

\* the dict `agg` of one summary row; `matches_index` is matches.index, the
\* labels of the line items the row was computed from, and `wp_index` the
\* label of the work-package row whose iteration appended it (NaN for the
\* direct pass, which iterates keys): neither is a column of the output
Agg(wpno, matches, by, wp_index) ==
    [wpno_i |-> wpno,
     consumed_parts_count |-> Len(matches),
     consumed_qty |-> ConsumedQty(matches),
     consumed_cost |-> ConsumedCost(matches),
     consumption_start_date |-> SeriesMin(Col(matches, "del_date")),
     consumption_end_date |-> SeriesMax(Col(matches, "del_date")),
     consumption_station |-> StationMode(matches),
     consumption_matched_by |-> by,
     consumable_parts_count |-> Len(OfCategory(matches, "consumable")),
     rotable_parts_count |-> Len(OfCategory(matches, "rotable")),
     consumable_cost |-> ConsumedCost(OfCategory(matches, "consumable")),
     rotable_cost |-> ConsumedCost(OfCategory(matches, "rotable")),
     matches_index |-> Range(Col(matches, "index")),
     wp_index |-> wp_index]

\* consumption[consumption['wpno_i'].notna()]
WithWpno(rows) == SelectSeq(rows, LAMBDA c : NotNa(c.wpno_i))
\* a heuristic pass over all line items, keyed ones included
NoWpno_All(rows) == rows

\* consumption[consumption['wpno_i'].isna()]
NoWpno(rows) == SelectSeq(rows, LAMBDA c : IsNa(c.wpno_i))

\* consumption_with_wpno[consumption_with_wpno['wpno_i'] == wpno]
DirectMatches(with_wpno, wpno) == SelectSeq(with_wpno, LAMBDA c : KeyEq(c.wpno_i, wpno))

\* Strategy 1: one row per distinct non-missing work-package key that has
\* keyed line items
DirectRows(wps, with_wpno) ==
    LET keys == SelectSeq(Unique(Col(wps, "wpno_i")),
                          LAMBDA k : NotNa(k) /\ Len(DirectMatches(with_wpno, k)) > 0)
    IN IF Len(with_wpno) > 0
       THEN [i \in 1..Len(keys) |->
               Agg(keys[i], DirectMatches(with_wpno, keys[i]), "WPNO_I", NaN)]
       ELSE << >>

\* the heuristic pass without the skip of directly matched work packages
AlreadyDirect_Never(matched, wp) == Len(matched) < 0

\* "Skip if already matched by wpno_i"
AlreadyDirect(matched, wp) ==
    \E i \in 1..Len(matched) :
        KeyEq(matched[i].wpno_i, wp.wpno_i) /\ matched[i].consumption_matched_by = "WPNO_I"

\* the selection without the station test
InWindow_NoStation(c, wp) ==
    /\ DateGE(c.del_date, wp.start_date)
    /\ DateLE(c.del_date, wp.end_date)
\* the selection with the end date excluded
InWindow_EndExcluded(c, wp) ==
    /\ DateGE(c.del_date, wp.start_date)
    /\ DateLE(c.del_date, wp.end_date) /\ c.del_date # wp.end_date
    /\ StrEq(c.station, wp.station)

\* the time + station selection of one work package
InWindow(c, wp) ==
    /\ DateGE(c.del_date, wp.start_date)
    /\ DateLE(c.del_date, wp.end_date)
    /\ StrEq(c.station, wp.station)

\* lower-casing of the characters the texts of the model are written in
Lower(ch) ==
    CASE ch = "S" -> "s" [] ch = "E" -> "e" [] ch = "L" -> "l" [] OTHER -> ch
LowerText(t) == [i \in 1..Len(t) |-> Lower(t[i])]
\* Series.str.contains(pat, na=False, case=False) for a pattern without
\* regular-expression metacharacters
Contains(text, pat) ==
    /\ text # NoText
    /\ \E k \in 0..(Len(text) - Len(pat)) :
          SubSeq(LowerText(text), k + 1, k + Len(pat)) = LowerText(pat)

\* "Additional filters by receiver or aircraft"
Narrow(matches, wp, cols) ==
    LET ac_matches == SelectSeq(matches, LAMBDA c : TextEq(c.ac_registr, wp.ac_registr))
        receiver_matches == SelectSeq(matches, LAMBDA c : Contains(c.receiver, wp.ac_registr))
    IN IF wp.ac_registr # NoText /\ "ac_registr" \in cols
       THEN IF Len(ac_matches) > 0 THEN ac_matches
            ELSE IF "receiver" \in cols /\ Len(receiver_matches) > 0
                 THEN receiver_matches
                 ELSE matches
       ELSE matches

\* the frame `matches` of one iteration of the heuristic loop (line 330)
HeuristicMatches(wp, no_wpno, cols) ==
    Narrow(SelectSeq(no_wpno, LAMBDA c : InWindow(c, wp)), wp, cols)

\* does the iteration for wp reach the matching at all
HeuristicEligible(matched, wp) ==
    /\ NotNa(wp.start_date) /\ NotNa(wp.end_date)
    /\ ~AlreadyDirect(matched, wp)

\* the labels of the line items the rows counted
Claimed(rows) == UNION {rows[i].matches_index : i \in 1..Len(rows)}

\* Strategy 2: the rows the loop over workpacks_df.iterrows() appends
\* a heuristic pass in which a line item counted by an earlier work
\* package is no longer a candidate for a later one
RECURSIVE HeuristicRows_Exclusive(_, _, _, _, _)
HeuristicRows_Exclusive(wps, n, no_wpno, cols, direct) ==
    IF n = 0 \/ Len(no_wpno) = 0 THEN << >>
    ELSE LET prev == HeuristicRows_Exclusive(wps, n - 1, no_wpno, cols, direct)
             matches == HeuristicMatches(wps[n],
                            SelectSeq(no_wpno, LAMBDA c : c.index \notin Claimed(prev)), cols)
         IN IF HeuristicEligible(direct \o prev, wps[n]) /\ Len(matches) > 0
            THEN Append(prev, Agg(wps[n].wpno_i, matches, "TIME+STATION+RECEIVER",
                                  wps[n].index))
            ELSE prev

RECURSIVE HeuristicRows(_, _, _, _, _)
HeuristicRows(wps, n, no_wpno, cols, direct) ==
    IF n = 0 \/ Len(no_wpno) = 0 THEN << >>
    ELSE LET prev == HeuristicRows(wps, n - 1, no_wpno, cols, direct)
             wp == wps[n]
             matches == HeuristicMatches(wp, no_wpno, cols)
         IN IF HeuristicEligible(direct \o prev, wp) /\ Len(matches) > 0
            THEN Append(prev, Agg(wp.wpno_i, matches, "TIME+STATION+RECEIVER", wp.index))
            ELSE prev

match_consumption_to_workpacks(workpacks_df, consumption_detail_df) ==
    LET rows == consumption_detail_df.rows
        direct == DirectRows(workpacks_df.rows, WithWpno(rows))
        matched_consumption ==
            direct \o HeuristicRows(workpacks_df.rows, Len(workpacks_df.rows),
                                    NoWpno(rows), consumption_detail_df.cols, direct)
    IN IF ~consumption_detail_df.ok \/ Len(rows) = 0 THEN None
       ELSE IF "wpno_i" \notin consumption_detail_df.cols THEN Raised
       ELSE IF Len(matched_consumption) > 0 THEN Frame({}, matched_consumption)
       ELSE None

\* -------------------------------------------------------- master view
\* a float quotient a / b of two columns: missing when an operand is
\* missing or 0 / 0, infinite when only the divisor is 0
Quotient(a, b) ==
    IF IsNa(a) \/ IsNa(b) \/ (a = 0 /\ b = 0) THEN [kind |-> "nan", num |-> 0, den |-> 1]
    ELSE IF b = 0 THEN [kind |-> "inf", num |-> a, den |-> 0]
    ELSE [kind |-> "num", num |-> a, den |-> b]
NanQuotient == Quotient(NaN, NaN)

\* the first row in table order, without the sort
FirstByDate_TableOrder(rows, asc) == rows[1]

\* the first row of rows.sort_values('date', ascending=asc): missing dates
\* sort last, rows of equal date keep their table order
FirstByDate(rows, asc) ==
    LET dated == SelectSeq(rows, LAMBDA u : NotNa(u.date))
        Before(x, y) == IF asc THEN x <= y ELSE x >= y
        best == CHOOSE i \in 1..Len(dated) :
                   /\ \A j \in 1..Len(dated) : Before(dated[i].date, dated[j].date)
                   /\ \A j \in 1..(i - 1) : dated[j].date # dated[i].date
    IN IF dated = << >> THEN rows[1] ELSE dated[best]

\* get_latest_util(row), as the pair <<aircraft_hours, aircraft_cycles>>
get_latest_util(row, utilization_rows) ==
    LET ac_util == SelectSeq(utilization_rows,
                             LAMBDA u : TextEq(u.ac_registr, row.ac_registr))
        upto == SelectSeq(ac_util, LAMBDA u : DateLE(u.date, row.start_date))
        latest == IF Len(upto) = 0 THEN FirstByDate(ac_util, TRUE)
                  ELSE FirstByDate(upto, FALSE)
    IN IF row.ac_registr = NoText \/ IsNa(row.start_date) THEN <<NaN, NaN>>
       ELSE IF Len(ac_util) = 0 THEN <<NaN, NaN>>
       ELSE <<latest.tah, latest.tac>>

UtilizationCols == {"aircraft_hours", "aircraft_cycles", "hours_per_cycle"}
ConsumptionNanCols == {"consumed_parts_count", "consumed_qty", "consumed_cost",
                       "consumption_validated"}
ConsumptionCols ==
    ConsumptionNanCols \cup
    {"consumption_start_date", "consumption_end_date", "consumption_station",
     "consumption_matched_by", "consumable_parts_count", "rotable_parts_count",
     "consumable_cost", "rotable_cost"}
PlannedCols == {"planned_parts_count", "planned_qty", "planned_confirmed_qty",
                "planned_cost"}

\* the values a master row holds in the columns it has no data for
NoUtilization ==
    [aircraft_hours |-> NaN, aircraft_cycles |-> NaN, hours_per_cycle |-> NanQuotient]
NoConsumption ==
    [consumed_parts_count |-> NaN, consumed_qty |-> NaN, consumed_cost |-> NaN,
     consumption_start_date |-> NaT, consumption_end_date |-> NaT,
     consumption_station |-> NoStr, consumption_matched_by |-> NoStr,
     consumable_parts_count |-> NaN, rotable_parts_count |-> NaN,
     consumable_cost |-> NaN, rotable_cost |-> NaN]
NoPlanned ==
    [planned_parts_count |-> NaN, planned_qty |-> NaN,
     planned_confirmed_qty |-> NaN, planned_cost |-> NaN]

\* record union (the fields of a, then those of b)
Join(a, b) ==
    [f \in (DOMAIN a) \cup (DOMAIN b) |-> IF f \in DOMAIN a THEN a[f] ELSE b[f]]
\* a record without the fields in D
Without(r, D) == [f \in (DOMAIN r) \ D |-> r[f]]

\* add_utilization_data for one row
UtilizationOf(row, utilization_rows) ==
    LET hc == get_latest_util(row, utilization_rows)
    IN [aircraft_hours |-> hc[1], aircraft_cycles |-> hc[2],
        hours_per_cycle |-> Quotient(hc[1], hc[2])]

\* the rows of left.merge(right, on='wpno_i', how='left'): every left row
\* once per right row of the same key (missing keys match each other), in
\* left order, or once with the right columns missing
MergeKeyEq(a, b) == a = b
RECURSIVE MergeLeft(_, _, _)
MergeLeft(left, right, missing) ==
    IF left = << >> THEN << >>
    ELSE LET l == Head(left)
             hits == SelectSeq(right, LAMBDA r : MergeKeyEq(r.wpno_i, l.wpno_i))
             out == IF hits = << >> THEN <<Join(l, missing)>>
                    ELSE [i \in 1..Len(hits) |-> Join(l, hits[i])]
         IN out \o MergeLeft(Tail(left), right, missing)

\* the difference with missing operands read as 0
Minus_FillZero(a, b) == (IF IsNa(a) THEN 0 ELSE a) - (IF IsNa(b) THEN 0 ELSE b)

\* column arithmetic: missing when an operand is missing
Minus(a, b) == IF IsNa(a) \/ IsNa(b) THEN NaN ELSE a - b

\* the accuracy without the np.where condition
PlanningAccuracy_Unguarded(consumed, planned) ==
    Quotient((planned - Abs(consumed - planned)) * 100, planned)

\* np.where((planned > 0) & consumed.notna(), (1 - |variance| / planned) * 100, nan),
\* kept as the fraction ((planned - |variance|) * 100) / planned
PlanningAccuracy(consumed, planned) ==
    IF NotNa(planned) /\ planned > 0 /\ NotNa(consumed)
    THEN Quotient((planned - Abs(consumed - planned)) * 100, planned)
    ELSE NanQuotient

Derived(r) ==
    [parts_variance |-> Minus(r.consumed_parts_count, r.planned_parts_count),
     qty_variance |-> Minus(r.consumed_qty, r.planned_qty),
     cost_variance |-> Minus(r.consumed_cost, r.planned_cost),
     planning_accuracy |-> PlanningAccuracy(r.consumed_parts_count, r.planned_parts_count)]

\* the columns of a matcher row that are columns of the DataFrame
MatcherColumns(rows) ==
    [i \in 1..Len(rows) |->
        Join(Without(rows[i], {"matches_index", "wp_index"}),
             [consumption_validated |-> TRUE])]

\* "Add latest utilization data": add_utilization_data on every row
WithUtilization(rows, utilization) ==
    [i \in 1..Len(rows) |->
        Join(rows[i], IF utilization.ok THEN UtilizationOf(rows[i], utilization.rows)
                      ELSE NoUtilization)]

\* "Add consumption data": the call of the matcher (line 380) ...
MatchOn(workpacks, utilization, consumption_detail) ==
    IF consumption_detail.ok
    THEN match_consumption_to_workpacks(
             Frame({}, WithUtilization(workpacks.rows, utilization)), consumption_detail)
    ELSE None
\* ... and the merge of its result, or the three missing columns
WithConsumption(rows, consumption_matched) ==
    IF consumption_matched.ok
    THEN MergeLeft(rows, MatcherColumns(consumption_matched.rows),
                   Join(NoConsumption, [consumption_validated |-> FALSE]))
    ELSE [i \in 1..Len(rows) |->
            Join(rows[i], Join(NoConsumption, [consumption_validated |-> FALSE]))]

\* "Add planned material data"
WithPlanned(rows, planned) ==
    IF planned.ok THEN MergeLeft(rows, planned.rows, NoPlanned)
    ELSE [i \in 1..Len(rows) |-> Join(rows[i], NoPlanned)]

\* "Calculate variances" and "Calculate planning accuracy"
WithDerived(rows) == [i \in 1..Len(rows) |-> Join(rows[i], Derived(rows[i]))]

\* the columns the master table has beyond those of the work packages
MasterCols(utilization, consumption_detail, consumption_matched, planned) ==
    (IF utilization.ok THEN UtilizationCols ELSE {})
    \cup (IF consumption_matched.ok THEN ConsumptionCols
          ELSE IF consumption_detail.ok THEN ConsumptionNanCols ELSE {})
    \cup (IF planned.ok THEN PlannedCols ELSE {})

\* add_utilization_data on a table without rows: DataFrame.apply of a
\* function that returns a Series gives back a copy of the empty table, and
\* util_data['aircraft_hours'] (line 440) is a KeyError
UtilizationRaises(workpacks, utilization) ==
    utilization.ok /\ Len(workpacks.rows) = 0

\* get_master_view after its loads and its call of the matcher: None, a
\* table, or Raised when an exception leaves the function (the matcher's,
\* or the KeyError of line 396 on a column that was never added)
MasterViewOf(workpacks, utilization, consumption_detail, planned, consumption_matched) ==
    IF ~workpacks.ok THEN None
    ELSE IF UtilizationRaises(workpacks, utilization) THEN Raised
    ELSE IF consumption_matched = Raised THEN Raised
    ELSE IF ~({"consumed_parts_count", "planned_parts_count"} \subseteq
                MasterCols(utilization, consumption_detail, consumption_matched, planned))
         THEN Raised
    ELSE Frame(MasterCols(utilization, consumption_detail, consumption_matched, planned),
               WithDerived(WithPlanned(WithConsumption(
                   WithUtilization(workpacks.rows, utilization),
                   consumption_matched), planned)))

\* the pair of the local `consumption_matched` and the returned table
MasterViewWith(workpacks, utilization, consumption_detail, planned, consumption_matched) ==
    [consumption_matched |->
         IF workpacks.ok /\ ~UtilizationRaises(workpacks, utilization)
         THEN consumption_matched ELSE None,
     master |-> MasterViewOf(workpacks, utilization, consumption_detail, planned,
                             consumption_matched)]
MasterView(workpacks, utilization, consumption_detail, planned) ==
    MasterViewWith(workpacks, utilization, consumption_detail, planned,
                   MatchOn(workpacks, utilization, consumption_detail))

\* ------------------------------------------------------------- tables
\* pd.read_excel gives the rows the labels 0, 1, 2, ...
WithIndex(rows) == [i \in 1..Len(rows) |-> Join(rows[i], [index |-> i - 1])]

WP(k, sd, ed, st, reg) ==
    [wpno_i |-> k, start_date |-> sd, end_date |-> ed, station |-> st, ac_registr |-> reg]
Item(k, d, st, reg, rcv, q, p, vm) ==
    [wpno_i |-> k, del_date |-> d, station |-> st, ac_registr |-> reg,
     receiver |-> rcv, qty |-> q, average_price |-> p, vm |-> vm]
Util(reg, d, tah, tac) == [ac_registr |-> reg, date |-> d, tah |-> tah, tac |-> tac]
Planned(k, pn, q, p) ==
    [wpno_i |-> k, partno |-> pn, qty |-> q, average_price |-> p, confirmed_qty |-> 0]

SE == <<"S", "E">>
LN == <<"L", "N">>

\* the optional columns of a consumption table
ConsumptionOptional == {"wpno_i", "ac_registr", "receiver"}

\* work packages the matcher is exercised on: keys equal, distinct and
\* missing; windows that overlap; a missing date; both stations; known and
\* unknown registration
WPDom ==
    {WP(1, 1, 2, "AMS", SE), WP(1, 2, 3, "AMS", SE), WP(2, 1, 3, "AMS", SE),
     WP(NaN, 1, 2, "AMS", SE), WP(2, NaT, 2, "AMS", SE), WP(2, 1, 3, "CPH", NoText)}

\* consumption line items: keyed and unkeyed; dates inside, on the edge of
\* and outside the windows, and missing; both stations; own, foreign and
\* missing registration; a receiver text; issued (negative), returned
\* (positive) and missing quantities; a missing price; voucher modes inside
\* and outside the two categories
ItemDom ==
    {Item(NaN, 2, "AMS", SE, NoText, 0 - 1, 5, "AA"),
     Item(NaN, 3, "AMS", SE, NoText, 0 - 2, 3, "YA"),
     Item(NaN, 2, "CPH", LN, <<"s", "e">>, 2, 7, "AA"),
     Item(NaN, 1, "AMS", NoText, NoText, NaN, NaN, "YE"),
     Item(1, 2, "AMS", SE, NoText, 0 - 1, 5, "AA"),
     Item(1, NaT, "CPH", SE, NoText, 2, NaN, "YA"),
     Item(1, 2, "AMS", SE, NoText, 0 - 3, 4, "XX"),
     Item(2, 2, "AMS", SE, NoText, 0 - 1, 5, "AA")}

UtilTable == Frame({}, WithIndex(<<Util(SE, 1, 100, 10), Util(SE, 3, 300, 30)>>))
PlannedTable ==
    Frame({"confirmed_qty"}, WithIndex(<<Planned(1, 1, 2, 5), Planned(1, 1, 1, 5)>>))

VARIABLES
    session_state,        \* st.session_state of every browser session
    cache,                \* the st.cache_data entry of every loader
    master,               \* master_df of the page run of every session
    consumption_matched,  \* the local consumption_matched of that build
    uploaded_files,       \* the files the uploader widget of every session holds
    trained_model         \* the st.cache_resource entry of get_trained_model

vars == <<session_state, cache, master, consumption_matched, uploaded_files,
          trained_model>>

Sessions == {"A", "B"}

\* no get_master_view call in the current page run
Unset == [ok |-> FALSE, cols |-> {"unset"}, rows |-> << >>]
EmptySession == [k \in REQUIRED_KEYS |-> None]
EmptyCache == [f \in Loaders |-> << >>]

\* ------------------------------------------------------------ memoizing
\* @st.cache_data on a function without arguments: one entry per function,
\* filled by the first call and returned by every later one
Memoized(c, f, value) == IF c[f] # << >> THEN c[f][1] ELSE value
\* a cache that keeps None in place of the value of the first call
Filled_None(c, f, value) == IF c[f] # << >> THEN c ELSE [c EXCEPT ![f] = <<None>>]
Filled(c, f, value) == IF c[f] # << >> THEN c ELSE [c EXCEPT ![f] = <<value>>]

\* the four loads of get_master_view (lines 363-366), through the cache
LoadAll(ss, c) ==
    [workpacks |-> Memoized(c, "load_workpacks", load_workpacks(ss)),
     utilization |-> Memoized(c, "load_utilization", load_utilization(ss)),
     consumption_detail |->
         Memoized(c, "load_consumption_detailed", load_consumption_detailed(ss)),
     planned |-> Memoized(c, "load_planned_material", load_planned_material(ss))]
CacheAfterLoadAll(ss, c) ==
    Filled(Filled(Filled(Filled(c,
        "load_workpacks", load_workpacks(ss)),
        "load_utilization", load_utilization(ss)),
        "load_consumption_detailed", load_consumption_detailed(ss)),
        "load_planned_material", load_planned_material(ss))

LoadedView(l) ==
    MasterView(l.workpacks, l.utilization, l.consumption_detail, l.planned)

\* get_master_view() in a session with state ss and the process cache c
get_master_view(ss, c) ==
    IF ~is_data_uploaded(ss)
    THEN [consumption_matched |-> None, master |-> None]
    ELSE LoadedView(LoadAll(ss, c))
CacheAfterMasterView(ss, c) ==
    IF ~is_data_uploaded(ss) THEN c ELSE CacheAfterLoadAll(ss, c)

\* get_data_completeness after its get_master_view call gave master_df (lines
\* 455-471): None for None, Raised when get_master_view raised or a column
\* is missing (KeyError), else the dict; the fields on 'is_c_check', a
\* column the model's work packages do not carry, are left out
CompletenessOf(master_df) ==
    IF master_df = None THEN None
    ELSE IF master_df = Raised THEN Raised
    ELSE IF "aircraft_hours" \notin master_df.cols THEN Raised
    ELSE [total_workpacks |-> Len(master_df.rows),
          with_utilization |->
              Quotient(100 * CountNotNa(Col(master_df.rows, "aircraft_hours")),
                       Len(master_df.rows)),
          with_consumption |->
              Quotient(100 * CountNotNa(Col(master_df.rows, "consumed_parts_count")),
                       Len(master_df.rows)),
          with_planned |->
              Quotient(100 * CountNotNa(Col(master_df.rows, "planned_parts_count")),
                       Len(master_df.rows))]
\* get_data_completeness() in a session with state ss and the cache c
get_data_completeness(ss, c) ==
    IF ~is_data_uploaded(ss) THEN None
    ELSE CompletenessOf(get_master_view(ss, c).master)

\* get_consumption_by_category after its load gave consumption_detail
\* (lines 483-503); consumption_detail['wpno_i'] is a KeyError on a table
\* without that column
CategoryStatsOf(consumption_detail) ==
    IF ~consumption_detail.ok \/ Len(consumption_detail.rows) = 0 THEN None
    ELSE IF "wpno_i" \notin consumption_detail.cols THEN Raised
    ELSE [total_records |-> Len(consumption_detail.rows),
          consumable_records |-> Len(OfCategory(consumption_detail.rows, "consumable")),
          rotable_records |-> Len(OfCategory(consumption_detail.rows, "rotable")),
          consumable_cost |->
              SeriesSum(Col(OfCategory(consumption_detail.rows, "consumable"), "average_price")),
          rotable_cost |->
              SeriesSum(Col(OfCategory(consumption_detail.rows, "rotable"), "average_price")),
          consumable_qty |->
              SeriesAbsSum(Col(OfCategory(consumption_detail.rows, "consumable"), "qty")),
          rotable_qty |->
              SeriesAbsSum(Col(OfCategory(consumption_detail.rows, "rotable"), "qty")),
          voucher_mode_counts |->
              [vm \in Range(Col(consumption_detail.rows, "vm")) |->
                  Len(SelectSeq(consumption_detail.rows, LAMBDA r : r.vm = vm))],
          records_with_wpno_i |-> CountNotNa(Col(consumption_detail.rows, "wpno_i")),
          records_without_wpno_i |->
              Len(consumption_detail.rows) - CountNotNa(Col(consumption_detail.rows, "wpno_i"))]
\* get_consumption_by_category() in a session with state ss and the cache c
get_consumption_by_category(ss, c) ==
    IF ~is_data_uploaded(ss) THEN None
    ELSE CategoryStatsOf(Memoized(c, "load_consumption_detailed",
                                  load_consumption_detailed(ss)))

\* ------------------------------------------------------ model training
\* the samples get_trained_model asks for (ml_model.py, line 239)
MinSamples == 10
\* master_df[master_df['consumed_parts_count'].notna()]
TrainingRows(master_df) ==
    SelectSeq(master_df.rows, LAMBDA r : r.consumed_parts_count # NaN)
\* create_ml_features(master_df) for work packages with the optional
\* columns workpack_cols (feature_engineering.py, lines 23-73): the
\* three-element tuple of Nones without rows, a KeyError on a column the
\* table lacks, else the five-element tuple whose X has len rows
create_ml_features(master_df, workpack_cols) ==
    IF Len(TrainingRows(master_df)) = 0 THEN [kind |-> "tuple3", len |-> 0]
    ELSE IF "aircraft_hours" \notin master_df.cols \/ "is_eol" \notin workpack_cols
         THEN [kind |-> "raised", len |-> 0]
    ELSE [kind |-> "tuple5", len |-> Len(TrainingRows(master_df))]

\* what get_trained_model gives: a model, None after st.error(error), or
\* an exception
ModelResult(model, error) == [model |-> model, error |-> error]
TrainRaised == ModelResult("raised", "")
\* get_trained_model after create_ml_features gave features (lines
\* 237-266): unpacking three values into five names is a ValueError
TrainOn(features) ==
    IF features.kind = "raised" \/ features.kind = "tuple3" THEN TrainRaised
    ELSE IF features.len < MinSamples
         THEN ModelResult("None",
                  "Insufficient data for model training (need at least 10 samples)")
    ELSE ModelResult("trained", "")
\* the body of get_trained_model (lines 219-266) when a saved model exists
\* or not, get_master_view gives master_df and the work packages have the
\* optional columns workpack_cols
get_trained_model(saved, master_df, workpack_cols) ==
    IF saved THEN ModelResult("loaded", "")
    ELSE IF master_df = Raised THEN TrainRaised
    ELSE IF master_df = None
         THEN ModelResult("None", "Could not load data for model training")
    ELSE TrainOn(create_ml_features(master_df, workpack_cols))

\* ------------------------------------------------------------- actions
\* the tables a session uploads in the session-level specification
SessionTables ==
    [uploaded_workpacks |->
        {Frame({}, WithIndex(<<WP(1, 1, 2, "AMS", SE)>>)),
         Frame({}, WithIndex(<<WP(1, 1, 2, "AMS", SE), WP(2, 2, 3, "AMS", SE)>>))},
     uploaded_utilization |-> {UtilTable},
     uploaded_consumption |->
        {Frame(ConsumptionOptional,
               WithIndex(<<Item(1, 2, "AMS", SE, NoText, 0 - 1, 5, "AA"),
                           Item(NaN, 3, "AMS", SE, NoText, 0 - 2, 3, "YA")>>)),
         Frame({"ac_registr", "receiver"},
               WithIndex(<<Item(NaN, 2, "AMS", SE, NoText, 0 - 1, 5, "AA")>>))},
     uploaded_planned |-> {PlannedTable}]

\* ---------------------------------------------------------- upload page
\* REQUIRED_FILES (lines 25-51): required columns and session key per type
REQUIRED_FILES ==
    [workpacks |->
        [required_columns |-> {"wpno_i", "wpno", "ac_registr", "ac_typ", "station",
                               "start_date", "end_date", "is_c_check"},
         session_key |-> "uploaded_workpacks"],
     utilization |->
        [required_columns |-> {"ac_registr", "date", "tah", "tac"},
         session_key |-> "uploaded_utilization"],
     consumption |->
        [required_columns |-> {"partno", "qty", "average_price", "del_date",
                               "station", "vm"},
         session_key |-> "uploaded_consumption"],
     planned |->
        [required_columns |-> {"wpno_i", "partno", "qty", "average_price"},
         session_key |-> "uploaded_planned"]]

\* detect_file_type returns None
NoType == "None"
\* detect_file_type(df) on the column set of df: the tests in their order
detect_file_type(df_cols) ==
    IF "is_c_check" \in df_cols /\ "wpno" \in df_cols THEN "workpacks"
    ELSE IF "tah" \in df_cols /\ "tac" \in df_cols THEN "utilization"
    ELSE IF "vm" \in df_cols /\ "del_date" \in df_cols THEN "consumption"
    ELSE IF "partno" \in df_cols /\ "wpno_i" \in df_cols /\ "vm" \notin df_cols
         THEN "planned"
    ELSE NoType

\* validate_columns accepting every file
validate_columns_Nothing(df_cols, required_columns) == {}
\* validate_columns(df, required_columns): the missing columns
validate_columns(df_cols, required_columns) == required_columns \ df_cols

\* an uploaded file: whether pd.read_excel reads it, the columns and the
\* table it gives
File(readable, columns, df) == [readable |-> readable, columns |-> columns, df |-> df]

\* one turn of the loop over the uploaded files (lines 131-165):
\* files_to_store after the file f
StoreFile(files_to_store, f) ==
    IF ~f.readable THEN files_to_store
    ELSE IF detect_file_type(f.columns) = NoType THEN files_to_store
    ELSE IF validate_columns(f.columns,
                REQUIRED_FILES[detect_file_type(f.columns)].required_columns) # {}
         THEN files_to_store
    ELSE [files_to_store EXCEPT
             ![REQUIRED_FILES[detect_file_type(f.columns)].session_key] = f.df]
\* files_to_store after the first n files; None stands for no entry
RECURSIVE FilesToStore(_, _)
FilesToStore(files, n) ==
    IF n = 0 THEN [k \in REQUIRED_KEYS |-> None]
    ELSE StoreFile(FilesToStore(files, n - 1), files[n])
\* the session after "store all successful files" (lines 175-178)
Stored(ss, files_to_store) ==
    [k \in REQUIRED_KEYS |-> IF files_to_store[k].ok THEN files_to_store[k] ELSE ss[k]]
\* a run of the upload page in a session ss whose uploader holds files
\* (lines 125-183; nothing happens for an empty uploader)
ProcessFiles(ss, files) == Stored(ss, FilesToStore(files, Len(files)))

\* the user changes the files in the uploader to files: the page runs,
\* processes them, and reruns (processing them again) when the upload
\* status changed
SelectFiles(s, files) ==
    /\ session_state' = [session_state EXCEPT ![s] = ProcessFiles(session_state[s], files)]
    /\ uploaded_files' = [uploaded_files EXCEPT ![s] = files]
    /\ master' = [master EXCEPT ![s] = Unset]
    /\ consumption_matched' = [consumption_matched EXCEPT ![s] = Unset]
    /\ UNCHANGED <<cache, trained_model>>

\* the file of type k with the required columns of the type and the table t
FileOf(k, t) ==
    File(TRUE,
         UNION {REQUIRED_FILES[ty].required_columns :
                   ty \in {x \in DOMAIN REQUIRED_FILES : REQUIRED_FILES[x].session_key = k}}
            \cup t.cols,
         t)
\* the upload of one file that is recognised and has the required columns
\* of its type
Upload(s, k, t) == SelectFiles(s, <<FileOf(k, t)>>)

\* "Wis alle data" (lines 196-200): the run of the click processes the
\* uploader's files, deletes the four keys and calls st.rerun(); the rerun
\* processes the files the uploader still holds (lines 125-183)
ClearAll(s) ==
    /\ session_state' =
          [session_state EXCEPT ![s] = ProcessFiles(EmptySession, uploaded_files[s])]
    /\ master' = [master EXCEPT ![s] = Unset]
    /\ consumption_matched' = [consumption_matched EXCEPT ![s] = Unset]
    /\ UNCHANGED <<cache, uploaded_files, trained_model>>

\* a page run that called get_master_view with outcome r, leaving the
\* cache c; the uploader is not rendered on the page, which ends its state
PageRun(s, r, c) ==
    /\ master' = [master EXCEPT ![s] = r.master]
    /\ consumption_matched' = [consumption_matched EXCEPT ![s] = r.consumption_matched]
    /\ cache' = c
    /\ uploaded_files' = [uploaded_files EXCEPT ![s] = << >>]
    /\ UNCHANGED <<session_state, trained_model>>

\* a page that stops unless the data is uploaded and then builds the master
\* view (pages 1, 4 and 5)
ViewPage(s) ==
    IF is_data_uploaded(session_state[s])
    THEN PageRun(s, get_master_view(session_state[s], cache),
                 CacheAfterMasterView(session_state[s], cache))
    ELSE PageRun(s, [consumption_matched |-> Unset, master |-> Unset], cache)

\* the cache after the two loads that follow get_master_view on pages 2
\* and 6; an exception in get_master_view ends the page run before them
AfterDetailLoads(ss, r, c) ==
    IF r.master = Raised THEN c
    ELSE Filled(Filled(c,
             "load_consumption_detailed", load_consumption_detailed(ss)),
             "load_planned_material_detailed", load_planned_material_detailed(ss))
AnalysisPageRun(s, r, c) == PageRun(s, r, AfterDetailLoads(session_state[s], r, c))

\* a page that builds the master view and then calls
\* load_consumption_detailed() and load_planned_material_detailed()
\* whatever is uploaded (pages 2 and 6)
ViewAnalysisPage(s) ==
    AnalysisPageRun(s, get_master_view(session_state[s], cache),
                    CacheAfterMasterView(session_state[s], cache))

\* @st.cache_resource: the first value returned is kept; an exception
\* leaves no entry
ResourceAfter(entry, result) ==
    IF entry # << >> \/ result = TrainRaised THEN entry ELSE <<result>>

\* the prediction page (page 3, lines 33-47) with the outcome r of its
\* get_master_view call: get_trained_model() follows unless that call
\* raised, and builds the master view again from the filled cache
PredictionPageRun(s, r, c, saved) ==
    /\ master' = [master EXCEPT ![s] = r.master]
    /\ consumption_matched' = [consumption_matched EXCEPT ![s] = r.consumption_matched]
    /\ cache' = c
    /\ uploaded_files' = [uploaded_files EXCEPT ![s] = << >>]
    /\ trained_model' =
          IF r.master = Raised THEN trained_model
          ELSE ResourceAfter(trained_model,
                   get_trained_model(saved, get_master_view(session_state[s], c).master,
                                     LoadAll(session_state[s], c).workpacks.cols))
    /\ UNCHANGED session_state
PredictionPage(s) ==
    IF is_data_uploaded(session_state[s])
    THEN \E saved \in BOOLEAN :
            PredictionPageRun(s, get_master_view(session_state[s], cache),
                              CacheAfterMasterView(session_state[s], cache), saved)
    ELSE PageRun(s, [consumption_matched |-> Unset, master |-> Unset], cache)

\* --------------------------------------------------------- specifications
\* the session level: uploads, clears and page views of one session
Init ==
    /\ session_state = [s \in Sessions |-> EmptySession]
    /\ cache = EmptyCache
    /\ master = [s \in Sessions |-> Unset]
    /\ consumption_matched = [s \in Sessions |-> Unset]
    /\ uploaded_files = [s \in Sessions |-> << >>]
    /\ trained_model = << >>

Next ==
    \/ \E k \in REQUIRED_KEYS : \E t \in SessionTables[k] : Upload("A", k, t)
    \/ ClearAll("A")
    \/ ViewPage("A")
    \/ ViewAnalysisPage("A")

Spec == Init /\ [][Next]_vars

\* the home page (app.py, lines 95-122): get_data_completeness() builds the
\* master view, get_consumption_by_category() loads the line items; both
\* only when the data is uploaded
HomePage(s) ==
    PageRun(s, [consumption_matched |-> Unset, master |-> Unset],
            CacheAfterMasterView(session_state[s], cache))

\* the upload level: the files a user puts in the uploader; an accepted one
\* of every type, a table with the planned columns and
\* 'vm' but no 'del_date' (no type), a work-package table without
\* 'station', and a file pd.read_excel cannot read
AcceptedFiles ==
    {FileOf("uploaded_workpacks", Frame({}, WithIndex(<<WP(1, 1, 2, "AMS", SE)>>))),
     FileOf("uploaded_utilization", UtilTable),
     FileOf("uploaded_consumption",
            Frame(ConsumptionOptional,
                  WithIndex(<<Item(1, 2, "AMS", SE, NoText, 0 - 1, 5, "AA")>>))),
     FileOf("uploaded_planned", PlannedTable)}
RejectedFiles ==
    {File(TRUE, {"wpno_i", "partno", "qty", "average_price", "vm"},
          Frame({}, WithIndex(<<Planned(2, 1, 1, 5)>>))),
     File(TRUE, REQUIRED_FILES["workpacks"].required_columns \ {"station"},
          Frame({}, WithIndex(<<WP(3, 1, 2, "AMS", SE)>>))),
     File(FALSE, {}, None)}
UploadFileDom == AcceptedFiles \cup RejectedFiles

NextUpload ==
    \/ \E files \in SeqUpTo(UploadFileDom, MaxBatch) : SelectFiles("A", files)
    \/ ClearAll("A")
    \/ HomePage("A")

SpecUpload == Init /\ [][NextUpload]_vars

\* the matcher level: session A holds four freshly uploaded tables, nothing
\* is cached yet, and a page builds the master view
InitMatch ==
    /\ \E w \in SeqUpTo(WPDom, MaxWP) : \E c \in SeqUpTo(ItemDom, MaxItems) :
          session_state =
             [s \in Sessions |->
                IF s = "A"
                THEN [uploaded_workpacks |-> Frame({}, WithIndex(w)),
                      uploaded_utilization |-> UtilTable,
                      uploaded_consumption |-> Frame(ConsumptionOptional, WithIndex(c)),
                      uploaded_planned |-> PlannedTable]
                ELSE EmptySession]
    /\ cache = EmptyCache
    /\ master = [s \in Sessions |-> Unset]
    /\ consumption_matched = [s \in Sessions |-> Unset]
    /\ uploaded_files = [s \in Sessions |-> << >>]
    /\ trained_model = << >>

\* one page run: the build from the fresh tables
NextMatch == master["A"] = Unset /\ ViewPage("A")

SpecMatch == InitMatch /\ [][NextMatch]_vars

\* the join level: four work packages, and a utilization table, a
\* consumption table and a planned-material table that vary.
\* utilization snapshots: dates before, on and after the starts, out of
\* table order; zero cycles; a second aircraft; an unparseable date
UtilDom ==
    {Util(SE, 1, 100, 10), Util(SE, 3, 300, 30), Util(SE, 2, 200, 0),
     Util(LN, 2, 50, 5), Util(SE, BadDate, 400, 40)}

\* planned line items: keys present and missing; a missing part number; a
\* negative quantity; a missing monetary value
PlannedDom ==
    {Planned(1, 1, 2, 5), Planned(1, NaN, 1, 5), Planned(1, 2, 0 - 2, 3),
     Planned(NaN, 1, 4, 1), Planned(2, 1, 1, NaN)}

JoinWorkpacks ==
    Frame({}, WithIndex(<<WP(1, 2, 3, "AMS", SE), WP(2, 1, 2, "AMS", LN),
                          WP(3, BadDate, 2, "AMS", NoText), WP(4, 1, 1, "CPH", SE)>>))

\* consumption tables: keyed line items; unkeyed ones in a table without
\* the optional ac_registr column; unkeyed ones with a foreign registration
\* and a receiver text; an unkeyed one with an unparseable date
JoinConsumption ==
    {Frame(ConsumptionOptional,
           WithIndex(<<Item(1, 2, "AMS", SE, NoText, 0 - 1, 5, "AA"),
                       Item(1, 2, "AMS", SE, NoText, 2, NaN, "YA")>>)),
     Frame({"wpno_i", "receiver"},
           WithIndex(<<Item(NaN, 2, "AMS", NoText, <<"x", "S", "e">>, 0 - 1, 5, "AA"),
                       Item(NaN, 2, "AMS", NoText, NoText, 0 - 2, 3, "AA")>>)),
     Frame(ConsumptionOptional,
           WithIndex(<<Item(NaN, 2, "AMS", LN, <<"s", "e">>, 0 - 1, 5, "AA"),
                       Item(NaN, 2, "AMS", NoText, NoText, 0 - 2, 3, "YA")>>)),
     Frame(ConsumptionOptional,
           WithIndex(<<Item(NaN, BadDate, "AMS", SE, NoText, 0 - 1, 5, "AA"),
                       Item(NaN, 2, "AMS", SE, NoText, 0 - 2, 3, "YA")>>))}

InitJoin ==
    /\ \E u \in SeqUpTo(UtilDom, MaxUtil) : \E p \in SeqUpTo(PlannedDom, MaxPlanned) :
       \E c \in JoinConsumption :
          session_state =
             [s \in Sessions |->
                IF s = "A"
                THEN [uploaded_workpacks |-> JoinWorkpacks,
                      uploaded_utilization |-> Frame({}, WithIndex(u)),
                      uploaded_consumption |-> c,
                      uploaded_planned |-> Frame({"confirmed_qty"}, WithIndex(p))]
                ELSE EmptySession]
    /\ cache = EmptyCache
    /\ master = [s \in Sessions |-> Unset]
    /\ consumption_matched = [s \in Sessions |-> Unset]
    /\ uploaded_files = [s \in Sessions |-> << >>]
    /\ trained_model = << >>

NextJoin == master["A"] = Unset /\ ViewPage("A")

SpecJoin == InitJoin /\ [][NextJoin]_vars

\* the order level: work-package tables whose keys are present and
\* pairwise distinct, in every order, over the line items of the matcher
\* level
OrderWPDom == {w \in WPDom : w.wpno_i # NaN} \cup {WP(3, 2, 3, "AMS", SE)}
DistinctKeys(w) == \A i, j \in DOMAIN w : i # j => w[i].wpno_i # w[j].wpno_i

InitOrder ==
    /\ \E w \in {x \in SeqUpTo(OrderWPDom, MaxWP) : DistinctKeys(x)} :
       \E c \in SeqUpTo(ItemDom, MaxItems) :
          session_state =
             [s \in Sessions |->
                IF s = "A"
                THEN [uploaded_workpacks |-> Frame({}, WithIndex(w)),
                      uploaded_utilization |-> UtilTable,
                      uploaded_consumption |-> Frame(ConsumptionOptional, WithIndex(c)),
                      uploaded_planned |-> PlannedTable]
                ELSE EmptySession]
    /\ cache = EmptyCache
    /\ master = [s \in Sessions |-> Unset]
    /\ consumption_matched = [s \in Sessions |-> Unset]
    /\ uploaded_files = [s \in Sessions |-> << >>]
    /\ trained_model = << >>

NextOrder == master["A"] = Unset /\ ViewPage("A")

SpecOrder == InitOrder /\ [][NextOrder]_vars

\* the two-session level: sessions A and B of one process hold four
\* uploaded tables each, nothing is cached yet, and each session views
\* pages or clears its data
InitSessions ==
    /\ \E wa, wb \in SessionTables["uploaded_workpacks"] :
       \E ca, cb \in SessionTables["uploaded_consumption"] :
          session_state =
             [s \in Sessions |->
                [uploaded_workpacks |-> IF s = "A" THEN wa ELSE wb,
                 uploaded_utilization |-> UtilTable,
                 uploaded_consumption |-> IF s = "A" THEN ca ELSE cb,
                 uploaded_planned |-> PlannedTable]]
    /\ cache = EmptyCache
    /\ master = [s \in Sessions |-> Unset]
    /\ consumption_matched = [s \in Sessions |-> Unset]
    /\ uploaded_files = [s \in Sessions |-> << >>]
    /\ trained_model = << >>

NextSessions ==
    \E s \in Sessions :
        \/ ViewPage(s)
        \/ ViewAnalysisPage(s)
        \/ ClearAll(s)

SpecSessions == InitSessions /\ [][NextSessions]_vars

\* the training level: session A holds four freshly uploaded tables, the
\* work packages with or without the optional column 'is_eol', nothing is
\* cached, and the prediction page runs
InitTrain ==
    /\ \E w \in SeqUpTo(OrderWPDom, MaxWP) : \E c \in SeqUpTo(ItemDom, MaxItems) :
       \E wcols \in {{}, {"is_eol"}} :
          session_state =
             [s \in Sessions |->
                IF s = "A"
                THEN [uploaded_workpacks |-> Frame(wcols, WithIndex(w)),
                      uploaded_utilization |-> UtilTable,
                      uploaded_consumption |-> Frame(ConsumptionOptional, WithIndex(c)),
                      uploaded_planned |-> PlannedTable]
                ELSE EmptySession]
    /\ cache = EmptyCache
    /\ master = [s \in Sessions |-> Unset]
    /\ consumption_matched = [s \in Sessions |-> Unset]
    /\ uploaded_files = [s \in Sessions |-> << >>]
    /\ trained_model = << >>

NextTrain == master["A"] = Unset /\ PredictionPage("A")

SpecTrain == InitTrain /\ [][NextTrain]_vars

\* ---------------------------------------------------------------- claims
\* what the claims speak about, in session A after a build
UploadedWP == session_state["A"]["uploaded_workpacks"].rows
UploadedItems == session_state["A"]["uploaded_consumption"].rows
\* the work packages and line items the matcher was given
LoadedWP == cache["load_workpacks"][1].rows
LoadedItems == cache["load_consumption_detailed"][1].rows
MatcherRows == consumption_matched["A"].rows
MasterRows == master["A"].rows
MasterBuilt == master["A"].ok
MatcherGaveRows == consumption_matched["A"].ok

RowsBy(by) == {i \in 1..Len(MatcherRows) : MatcherRows[i].consumption_matched_by = by}
DirectRowsOf(k) == {i \in RowsBy("WPNO_I") : MatcherRows[i].wpno_i = k}
HeuristicRowsOf(k) == {i \in RowsBy("TIME+STATION+RECEIVER") : MatcherRows[i].wpno_i = k}
\* the HEURISTIC rows appended by the iteration for work package w
HeuristicRowsFor(w) ==
    {i \in RowsBy("TIME+STATION+RECEIVER") : MatcherRows[i].wp_index = w.index}
MasterRowsOf(w) == {i \in 1..Len(MasterRows) : MasterRows[i].index = w.index}

HasDates(w) == w.start_date # NaT /\ w.end_date # NaT
Keyed(c) == c.wpno_i # NaN
CarriesKeyOf(c, w) == c.wpno_i # NaN /\ c.wpno_i = w.wpno_i
KeptMode(c) == c.vm \in {"AA", "EA", "AS", "ES", "YA", "YE"}

RECURSIVE SetSum(_, _)
SetSum(S, f) ==
    IF S = {} THEN 0
    ELSE LET x == CHOOSE y \in S : TRUE IN f[x] + SetSum(S \ {x}, f)
\* the loaded line items with a label in I, by label
AbsQtyOf == [c \in Range(LoadedItems) |-> IF c.qty = NaN THEN 0 ELSE Abs(c.qty)]
PriceOf == [c \in Range(LoadedItems) |-> IF c.average_price = NaN THEN 0 ELSE c.average_price]
ItemsLabelled(I) == {c \in Range(LoadedItems) : c.index \in I}

DateOutside(c, w) ==
    \/ c.del_date = NaT \/ w.start_date = NaT \/ w.end_date = NaT
    \/ c.del_date < w.start_date \/ c.del_date > w.end_date

\* C2: an unkeyed line item whose date is outside [W.start, W.end] or whose
\* station differs from W's is in no HEURISTIC aggregate of W.
C2_OutsideNeverCounted ==
    MatcherGaveRows =>
        \A w \in Range(LoadedWP) : \A c \in Range(LoadedItems) :
            (~Keyed(c) /\ (DateOutside(c, w) \/ c.station # w.station)) =>
                \A i \in HeuristicRowsFor(w) : c.index \notin MatcherRows[i].matches_index

\* a work package with a HEURISTIC row, and an unkeyed line item dated
\* inside its window but at another station left out of that row
C2_Witness ==
    /\ MatcherGaveRows
    /\ \E w \in Range(LoadedWP) : \E i \in HeuristicRowsFor(w) :
          \E c \in Range(LoadedItems) :
              /\ ~Keyed(c) /\ c.station # w.station /\ ~DateOutside(c, w)
              /\ c.index \notin MatcherRows[i].matches_index

WPWithKey(k) == {i \in 1..Len(LoadedWP) : LoadedWP[i].wpno_i = k}

\* C3: the matcher's output has at most one row per work package: per key
\* at most one DIRECT row, never a DIRECT and a HEURISTIC row, and no more
\* rows than there are work packages of that key; per work package at most
\* one HEURISTIC row, and none when its key has a DIRECT row.
C3_AtMostOneRowPerWP ==
    MatcherGaveRows =>
        /\ \A r \in Range(MatcherRows) :
              /\ Cardinality(DirectRowsOf(r.wpno_i)) <= 1
              /\ DirectRowsOf(r.wpno_i) = {} \/ HeuristicRowsOf(r.wpno_i) = {}
              /\ Cardinality(DirectRowsOf(r.wpno_i)) + Cardinality(HeuristicRowsOf(r.wpno_i))
                    <= Cardinality(WPWithKey(r.wpno_i))
        /\ \A w \in Range(LoadedWP) :
              /\ Cardinality(HeuristicRowsFor(w)) <= 1
              /\ (w.wpno_i # NaN /\ DirectRowsOf(w.wpno_i) # {}) => HeuristicRowsFor(w) = {}

\* a work package with a DIRECT row that has an unkeyed line item inside
\* its window, next to a work package with a HEURISTIC row
C3_Witness ==
    /\ MatcherGaveRows
    /\ \E w \in Range(LoadedWP) :
          /\ w.wpno_i # NaN /\ DirectRowsOf(w.wpno_i) # {}
          /\ \E c \in Range(LoadedItems) :
                ~Keyed(c) /\ ~DateOutside(c, w) /\ c.station = w.station
    /\ \E w \in Range(LoadedWP) : HeuristicRowsFor(w) # {}

\* the HEURISTIC rows that count the line item c
HeuristicRowsCounting(c) ==
    {i \in RowsBy("TIME+STATION+RECEIVER") : c.index \in MatcherRows[i].matches_index}

RegistrationKeeps(c, w) == w.ac_registr = NoText \/ c.ac_registr = w.ac_registr

C5_DoubleCounting ==
    MatcherGaveRows =>
        \A v, w \in Range(LoadedWP) : \A c \in Range(LoadedItems) :
            ( /\ v.index # w.index
              /\ v.station = w.station /\ v.ac_registr = w.ac_registr
              /\ (v.wpno_i = NaN \/ DirectRowsOf(v.wpno_i) = {})
              /\ (w.wpno_i = NaN \/ DirectRowsOf(w.wpno_i) = {})
              /\ ~Keyed(c) /\ ~DateOutside(c, v) /\ ~DateOutside(c, w)
              /\ c.station = w.station /\ c.station # NoStr
              /\ RegistrationKeeps(c, w) )
            => \E i \in HeuristicRowsFor(v) : \E j \in HeuristicRowsFor(w) :
                  /\ c.index \in MatcherRows[i].matches_index
                  /\ c.index \in MatcherRows[j].matches_index

\* two work packages with different keys and different windows that share
\* a date, and one unkeyed line item of that date in both their rows
C5_Witness ==
    /\ MatcherGaveRows
    /\ \E v, w \in Range(LoadedWP) : \E c \in Range(LoadedItems) :
          /\ v.wpno_i # NaN /\ w.wpno_i # NaN /\ v.wpno_i # w.wpno_i
          /\ v.end_date # w.end_date /\ v.station = w.station
          /\ v.ac_registr = w.ac_registr
          /\ ~Keyed(c) /\ ~DateOutside(c, v) /\ ~DateOutside(c, w)
          /\ \E i \in HeuristicRowsFor(v) : c.index \in MatcherRows[i].matches_index
          /\ \E j \in HeuristicRowsFor(w) : c.index \in MatcherRows[j].matches_index

\* C6: in every session, a master view built with all four tables present
\* is the one computed from the tables the session holds at that moment.
C6_BuiltFromCurrentTables ==
    \A s \in Sessions :
        master[s].ok => master[s] = get_master_view(session_state[s], EmptyCache).master

\* C7: the master view has exactly one row per row of the work-package
\* table, in the same order.
C7_OneRowPerWorkPackage ==
    MasterBuilt =>
        /\ Len(MasterRows) = Len(UploadedWP)
        /\ \A i \in 1..Len(MasterRows) : MasterRows[i].index = UploadedWP[i].index

\* C8: get_master_view never ends with an exception.
C8_NeverRaises == \A s \in Sessions : master[s] # Raised

\* the line items a matcher row is computed from: for a DIRECT row the
\* loaded line items carrying its key, for a HEURISTIC row those counted
\* by the iteration that appended it
MatchedItems(r) ==
    IF r.consumption_matched_by = "WPNO_I"
    THEN {c \in Range(LoadedItems) : c.wpno_i = r.wpno_i}
    ELSE ItemsLabelled(r.matches_index)

\* C9: consumed_qty of every matcher row is the sum of the absolute
\* quantities of exactly the line items matched to it, and is >= 0; the
\* master rows of the work package carry that value.
C9_QtyIsSumOfAbs ==
    MatcherGaveRows =>
        /\ \A r \in Range(MatcherRows) :
              /\ r.consumed_qty = SetSum(MatchedItems(r), AbsQtyOf)
              /\ r.consumed_qty >= 0
              /\ r.consumed_parts_count = Cardinality(MatchedItems(r))
        /\ MasterBuilt =>
              \A m \in Range(MasterRows) :
                  m.consumed_parts_count # NaN =>
                      /\ m.consumed_qty >= 0
                      /\ \E r \in Range(MatcherRows) :
                            r.wpno_i = m.wpno_i /\ r.consumed_qty = m.consumed_qty

\* a row aggregating an issue (negative) and a return (positive): 1 + 2
C9_Witness ==
    /\ MatcherGaveRows
    /\ \E r \in Range(MatcherRows) :
          /\ \E c, d \in MatchedItems(r) : c.qty # NaN /\ d.qty # NaN /\ c.qty < 0 /\ d.qty > 0
          /\ r.consumed_qty = 3

\* C10: consumed_cost of every matcher row is the plain sum of the
\* monetary field of the line items matched to it, whatever their
\* quantities; the master rows of the work package carry that value.
C10_CostIsPlainSum ==
    MatcherGaveRows =>
        /\ \A r \in Range(MatcherRows) :
              r.consumed_cost = SetSum(MatchedItems(r), PriceOf)
        /\ MasterBuilt =>
              \A m \in Range(MasterRows) :
                  m.consumed_parts_count # NaN =>
                      \E r \in Range(MatcherRows) :
                          r.wpno_i = m.wpno_i /\ r.consumed_cost = m.consumed_cost

\* a row over two line items, one of quantity -2, whose cost is the sum of
\* the two prices
C10_Witness ==
    /\ MatcherGaveRows
    /\ \E r \in Range(MatcherRows) :
          \E c, d \in MatchedItems(r) :
              /\ c.index # d.index
              /\ c.qty = 0 - 2 /\ c.average_price # NaN /\ d.average_price # NaN
              /\ r.consumed_cost = c.average_price + d.average_price

\* the planning accuracy of a row is computed
AccuracyDefined(m) ==
    /\ m.planned_parts_count # NaN /\ m.planned_parts_count > 0
    /\ m.consumed_parts_count # NaN

\* C11: planning_accuracy of a master row is a number exactly when
\* planned_parts_count > 0 and consumed_parts_count is present; it is then
\* (1 - |consumed - planned| / planned) * 100, and otherwise the missing
\* value; the build does not end with an exception.
C11_AccuracyDefinedWhenPlanned ==
    /\ master["A"] # Raised
    /\ MasterBuilt =>
          \A m \in Range(MasterRows) :
              /\ AccuracyDefined(m) =>
                    /\ m.planning_accuracy.kind = "num"
                    /\ m.planning_accuracy.num * m.planned_parts_count =
                          (m.planned_parts_count
                             - Abs(m.consumed_parts_count - m.planned_parts_count))
                          * 100 * m.planning_accuracy.den
              /\ ~AccuracyDefined(m) => m.planning_accuracy = NanQuotient

\* a build with a row of 1 planned and 2 consumed parts (accuracy 0) and a
\* row with consumption whose planned count is 0 (accuracy missing)
C11_Witness ==
    /\ MasterBuilt
    /\ \E m \in Range(MasterRows) :
          /\ m.planned_parts_count = 1 /\ m.consumed_parts_count = 2
          /\ m.planning_accuracy.kind = "num" /\ m.planning_accuracy.num = 0
    /\ \E m \in Range(MasterRows) :
          /\ m.planned_parts_count = 0 /\ m.consumed_parts_count # NaN
          /\ m.planning_accuracy = NanQuotient

\* "v is consumed minus planned, and missing when either is"
IsVariance(v, consumed, planned) ==
    IF consumed = NaN \/ planned = NaN THEN v = NaN
    ELSE v # NaN /\ v + planned = consumed

\* C12: in every master row parts_variance, qty_variance and cost_variance
\* are consumed minus planned of part count, quantity and cost, and each is
\* missing when the consumed or the planned value of the row is missing.
C12_VarianceIsConsumedMinusPlanned ==
    MasterBuilt =>
        \A m \in Range(MasterRows) :
            /\ IsVariance(m.parts_variance, m.consumed_parts_count, m.planned_parts_count)
            /\ IsVariance(m.qty_variance, m.consumed_qty, m.planned_qty)
            /\ IsVariance(m.cost_variance, m.consumed_cost, m.planned_cost)

\* a build with a row of 2 consumed against 1 planned part and a row with
\* planned material and no consumption
C12_Witness ==
    /\ MasterBuilt
    /\ \E m \in Range(MasterRows) :
          /\ m.consumed_parts_count = 2 /\ m.planned_parts_count = 1
          /\ m.parts_variance = 1
          /\ m.qty_variance # NaN /\ m.cost_variance # NaN
    /\ \E m \in Range(MasterRows) :
          /\ m.consumed_parts_count = NaN /\ m.planned_parts_count # NaN
          /\ m.parts_variance = NaN /\ m.qty_variance = NaN /\ m.cost_variance = NaN

\* C13: in every master row consumed_cost, consumed_qty and
\* consumption_matched_by are present exactly when consumed_parts_count is,
\* also when the matched line items have no quantity or no monetary value.
C13_ConsumptionAllOrNone ==
    MasterBuilt =>
        \A m \in Range(MasterRows) :
            /\ (m.consumed_cost # NaN) <=> (m.consumed_parts_count # NaN)
            /\ (m.consumed_qty # NaN) <=> (m.consumed_parts_count # NaN)
            /\ (m.consumption_matched_by # NoStr) <=> (m.consumed_parts_count # NaN)

\* a master row whose matched line items all lack quantity and monetary
\* value, with quantity and cost 0, next to a row without consumption
C13_Witness ==
    /\ MasterBuilt /\ MatcherGaveRows
    /\ \E r \in Range(MatcherRows) :
          /\ MatchedItems(r) # {}
          /\ \A c \in MatchedItems(r) : c.qty = NaN /\ c.average_price = NaN
          /\ \E m \in Range(MasterRows) :
                /\ m.wpno_i = r.wpno_i /\ m.consumed_parts_count = 1
                /\ m.consumed_cost = 0 /\ m.consumed_qty = 0
    /\ \E m \in Range(MasterRows) :
          m.consumed_parts_count = NaN /\ m.consumed_cost = NaN

Candidates(w) ==
    {c \in Range(LoadedItems) : ~Keyed(c) /\ ~DateOutside(c, w) /\ c.station = w.station}
\* the consumption table has the optional column f
HasField(f) == f \in cache["load_consumption_detailed"][1].cols
OwnRegistration(w) ==
    {c \in Candidates(w) : HasField("ac_registr") /\ c.ac_registr = w.ac_registr}
ByReceiver(w) ==
    {c \in Candidates(w) : HasField("receiver") /\ Contains(c.receiver, w.ac_registr)}
Narrowed(w) ==
    IF OwnRegistration(w) # {} THEN OwnRegistration(w)
    ELSE IF ByReceiver(w) # {} THEN ByReceiver(w)
    ELSE Candidates(w)

\* C15: the HEURISTIC row of a work package with a known registration
\* counts the candidates bearing that registration if there are any,
\* otherwise those whose receiver text contains it (case-insensitive) if
\* there are any, otherwise all candidates; the receiver step also applies
\* when the line items have no registration column.
C15_ReceiverFallback ==
    MatcherGaveRows =>
        \A w \in Range(LoadedWP) :
            w.ac_registr # NoText =>
                \A i \in HeuristicRowsFor(w) :
                    MatcherRows[i].matches_index = {c.index : c \in Narrowed(w)}

\* the planned-material table of session A and its aggregation
UploadedPlanned == session_state["A"]["uploaded_planned"].rows
PlannedLoaded == cache["load_planned_material"] # << >>
LoadedPlanned == cache["load_planned_material"][1].rows
PlannedItemsOf(k) == {r \in Range(UploadedPlanned) : r.wpno_i = k}

\* C16: the planned-material aggregation has exactly one row per non-null
\* key of the planned table and none for the null key, and
\* planned_parts_count of a row is the number of line items of its key.
C16_OneRowPerPlannedKey ==
    PlannedLoaded =>
        /\ \A r \in Range(UploadedPlanned) :
              r.wpno_i # NaN =>
                  Cardinality({i \in 1..Len(LoadedPlanned) :
                                  LoadedPlanned[i].wpno_i = r.wpno_i}) = 1
        /\ \A g \in Range(LoadedPlanned) :
              /\ g.wpno_i # NaN
              /\ g.planned_parts_count = Cardinality(PlannedItemsOf(g.wpno_i))

PlannedAbsQtyOf == [r \in Range(UploadedPlanned) |-> IF r.qty = NaN THEN 0 ELSE Abs(r.qty)]
PlannedPriceOf ==
    [r \in Range(UploadedPlanned) |-> IF r.average_price = NaN THEN 0 ELSE r.average_price]

\* C17: planned_qty of every row of the planned-material aggregation is
\* the sum of the absolute quantities of the line items of its key, and
\* planned_cost is the sum of their monetary values.
C17_PlannedQtyIsSumOfAbs ==
    PlannedLoaded =>
        \A g \in Range(LoadedPlanned) :
            /\ g.planned_qty = SetSum(PlannedItemsOf(g.wpno_i), PlannedAbsQtyOf)
            /\ g.planned_cost = SetSum(PlannedItemsOf(g.wpno_i), PlannedPriceOf)

\* the utilization snapshots the build was given, and those of the
\* aircraft of master row m
LoadedUtil == cache["load_utilization"][1].rows
SnapshotsOf(m) == {u \in Range(LoadedUtil) : u.ac_registr = m.ac_registr}
DatedSnapshotsOf(m) == {u \in SnapshotsOf(m) : u.date # NaT}
SnapshotsUpTo(m) == {u \in DatedSnapshotsOf(m) : u.date <= m.start_date}
LatestOf(S) == {u \in S : \A v \in S : v.date <= u.date}
EarliestOf(S) == {u \in S : \A v \in S : u.date <= v.date}
Attached(m, S) ==
    \E u \in S : m.aircraft_hours = u.tah /\ m.aircraft_cycles = u.tac

\* C18: a master row with registration and start date carries the hours
\* and cycles of the snapshot of its aircraft with the greatest date not
\* after the start; without such a snapshot, those of the aircraft's
\* earliest snapshot (of one of its snapshots when none has a readable
\* date); and missing values when the aircraft has no snapshot.
C18_LatestSnapshotAtOrBeforeStart ==
    MasterBuilt =>
        \A m \in Range(MasterRows) :
            (m.ac_registr # NoText /\ m.start_date # NaT) =>
                IF SnapshotsUpTo(m) # {} THEN Attached(m, LatestOf(SnapshotsUpTo(m)))
                ELSE IF DatedSnapshotsOf(m) # {}
                     THEN Attached(m, EarliestOf(DatedSnapshotsOf(m)))
                ELSE IF SnapshotsOf(m) # {} THEN Attached(m, SnapshotsOf(m))
                ELSE m.aircraft_hours = NaN /\ m.aircraft_cycles = NaN

\* a utilization table that lists a snapshot of date 3 before one of date
\* 2: the row starting on 2 carries the snapshot of date 2, the row of the
\* same aircraft starting on 1 carries it as the earliest one, and the row
\* of an aircraft without snapshots carries none
C18_Witness ==
    /\ MasterBuilt
    /\ Len(LoadedUtil) = 2 /\ LoadedUtil[1].date = 3 /\ LoadedUtil[2].date = 2
    /\ \E m \in Range(MasterRows) :
          /\ m.start_date = 2 /\ Cardinality(SnapshotsOf(m)) = 2
          /\ m.aircraft_hours = LoadedUtil[2].tah
    /\ \E m \in Range(MasterRows) :
          /\ m.start_date = 1 /\ Cardinality(SnapshotsOf(m)) = 2
          /\ SnapshotsUpTo(m) = {}
          /\ m.aircraft_hours = LoadedUtil[2].tah
    /\ \E m \in Range(MasterRows) :
          /\ m.ac_registr # NoText /\ m.start_date # NaT /\ SnapshotsOf(m) = {}
          /\ m.aircraft_hours = NaN

\* C19: hours_per_cycle of a master row is hours / cycles when the cycles
\* are not zero, and the missing value, never an infinite one, when the
\* cycles are zero or missing; the build does not end with an exception.
C19_HoursPerCycleUndefinedAtZero ==
    /\ master["A"] # Raised
    /\ MasterBuilt =>
          \A m \in Range(MasterRows) :
              IF m.aircraft_cycles = NaN \/ m.aircraft_cycles = 0
              THEN m.hours_per_cycle = NanQuotient
              ELSE m.aircraft_hours # NaN =>
                      /\ m.hours_per_cycle.kind = "num"
                      /\ m.hours_per_cycle.num * m.aircraft_cycles =
                            m.aircraft_hours * m.hours_per_cycle.den

\* C20: a work package without start date or without end date gets no
\* HEURISTIC row from the matcher, and its master rows are never matched
\* by TIME+STATION+RECEIVER.
C20_NullDatesNeverHeuristic ==
    MasterBuilt =>
        \A w \in Range(LoadedWP) :
            ~HasDates(w) =>
                /\ HeuristicRowsFor(w) = {}
                /\ \A i \in MasterRowsOf(w) :
                      MasterRows[i].consumption_matched_by # "TIME+STATION+RECEIVER"

\* work package w has no DIRECT match (no row for its key) and no
\* HEURISTIC match (no row appended by its iteration)
Unmatched(w) ==
    /\ w.wpno_i = NaN \/ DirectRowsOf(w.wpno_i) = {}
    /\ HeuristicRowsFor(w) = {}

\* C21: the master rows of a work package without DIRECT and without
\* HEURISTIC match have missing, not zero, consumed_parts_count,
\* consumed_qty and consumed_cost, whether or not another work package
\* matched.
C21_UnmatchedHasNullConsumption ==
    MasterBuilt =>
        \A w \in Range(LoadedWP) :
            Unmatched(w) =>
                \A i \in MasterRowsOf(w) :
                    /\ MasterRows[i].consumed_parts_count = NaN
                    /\ MasterRows[i].consumed_qty = NaN
                    /\ MasterRows[i].consumed_cost = NaN

\* how often station s occurs among the line items matched to row r
StationFreq(r, s) == Cardinality({c \in MatchedItems(r) : c.station = s})
MostFrequent(r, s) ==
    /\ \E c \in MatchedItems(r) : c.station = s
    /\ \A c \in MatchedItems(r) : StationFreq(r, s) >= StationFreq(r, c.station)
\* s occurs among the matched line items before t does
OccursFirst(r, s, t) ==
    \E c \in MatchedItems(r) :
        /\ c.station = s
        /\ \A d \in MatchedItems(r) : d.station = t => c.index <= d.index

\* C22: consumption_station of a matcher row is the most frequent station
\* of its matched line items, and among stations tied for most frequent
\* the one that occurs first among them.
C22_ModeFirstOccurrence ==
    MatcherGaveRows =>
        \A r \in Range(MatcherRows) :
            /\ MostFrequent(r, r.consumption_station)
            /\ \A c \in MatchedItems(r) :
                  MostFrequent(r, c.station) =>
                      OccursFirst(r, r.consumption_station, c.station)

\* the table t with every unparseable value of date field f made null
NullDates(t, f) ==
    [t EXCEPT !.rows = [i \in 1..Len(t.rows) |->
        [t.rows[i] EXCEPT ![f] = IF t.rows[i][f] = BadDate THEN NaT ELSE t.rows[i][f]]]]
\* the session's tables with null in place of every unparseable date
WithNullDates(ss) ==
    [ss EXCEPT
        !["uploaded_workpacks"] = NullDates(NullDates(@, "start_date"), "end_date"),
        !["uploaded_consumption"] = NullDates(@, "del_date"),
        !["uploaded_utilization"] = NullDates(@, "date")]

\* C23: an unparseable date does not abort the build; an unkeyed line item
\* with an unparseable date is in no HEURISTIC aggregate; a work package
\* with an unparseable start or end has a null date there and no HEURISTIC
\* row; and the master view is the one built from the same tables with
\* null in place of the unparseable dates.
C23_UnparseableDateIsNull ==
    /\ master["A"] # Raised
    /\ MasterBuilt =>
          /\ \A c \in Range(UploadedItems) :
                (c.wpno_i = NaN /\ c.del_date = BadDate) =>
                    \A i \in RowsBy("TIME+STATION+RECEIVER") :
                        c.index \notin MatcherRows[i].matches_index
          /\ \A k \in 1..Len(UploadedWP) :
                /\ UploadedWP[k].start_date = BadDate =>
                      LoadedWP[k].start_date = NaT /\ HeuristicRowsFor(LoadedWP[k]) = {}
                /\ UploadedWP[k].end_date = BadDate =>
                      LoadedWP[k].end_date = NaT /\ HeuristicRowsFor(LoadedWP[k]) = {}
          /\ master["A"] =
                get_master_view(WithNullDates(session_state["A"]), EmptyCache).master

\* a build from a work package with an unparseable start and an unkeyed
\* line item with an unparseable date, in which another unkeyed line item
\* is counted by a HEURISTIC row
C23_Witness ==
    /\ MasterBuilt /\ MatcherGaveRows
    /\ \E w \in Range(UploadedWP) : w.start_date = BadDate
    /\ \E c \in Range(UploadedItems) : c.wpno_i = NaN /\ c.del_date = BadDate
    /\ \E i \in RowsBy("TIME+STATION+RECEIVER") : MatcherRows[i].consumed_parts_count = 1

RowsCounting(by, c) == {i \in RowsBy(by) : c.index \in MatcherRows[i].matches_index}

\* C25: a line item that carries a key is in no HEURISTIC aggregate and in
\* at most one DIRECT aggregate, which is the one of its key and exists
\* only if a work package has that key; a keyed line item whose key no
\* work package has is counted in no row.
C25_KeyedItemsOnlyDirect ==
    MatcherGaveRows =>
        \A c \in Range(UploadedItems) :
            Keyed(c) =>
                /\ RowsCounting("TIME+STATION+RECEIVER", c) = {}
                /\ Cardinality(RowsCounting("WPNO_I", c)) <= 1
                /\ \A i \in RowsCounting("WPNO_I", c) :
                      /\ MatcherRows[i].wpno_i = c.wpno_i
                      /\ WPWithKey(c.wpno_i) # {}
                /\ WPWithKey(c.wpno_i) = {} => RowsCounting("WPNO_I", c) = {}

\* a keyed line item that is in the DIRECT row of its key, next to a
\* keyed line item whose key no work package has and that no row counts,
\* while a work package without DIRECT row has the latter inside its window
C25_Witness ==
    /\ MatcherGaveRows
    /\ \E c \in Range(UploadedItems) : Keyed(c) /\ RowsCounting("WPNO_I", c) # {}
    /\ \E c \in Range(UploadedItems) :
          /\ Keyed(c) /\ WPWithKey(c.wpno_i) = {}
          /\ RowsCounting("WPNO_I", c) = {}
          /\ \E w \in Range(LoadedWP) :
                /\ w.wpno_i = NaN \/ DirectRowsOf(w.wpno_i) = {}
                /\ ~DateOutside(c, w) /\ c.station = w.station

\* the matcher on the work packages wps and the loaded line items
MatchOf(wps) ==
    match_consumption_to_workpacks(Frame({}, wps), cache["load_consumption_detailed"][1]).rows
\* the aggregates (method, count, quantity, cost) of key k among rows
AggregatesOf(rows, k) ==
    {<<r.consumption_matched_by, r.consumed_parts_count, r.consumed_qty, r.consumed_cost>> :
        r \in {x \in Range(rows) : x.wpno_i = k}}
\* the table wps with rows i and i + 1 exchanged
Swapped(wps, i) ==
    [n \in 1..Len(wps) |-> IF n = i THEN wps[i + 1] ELSE IF n = i + 1 THEN wps[i] ELSE wps[n]]

\* C26: with distinct non-null keys, the aggregate of every work-package
\* key is the same after exchanging two neighbouring rows of the
\* work-package table (hence after any permutation, every table being an
\* initial one) and the same as when the work package is alone in the table.
C26_OrderIndependent ==
    (MasterBuilt /\ DistinctKeys(LoadedWP)) =>
        \A n \in 1..Len(LoadedWP) :
            /\ LoadedWP[n].wpno_i # NaN
            /\ AggregatesOf(MatchOf(<<LoadedWP[n]>>), LoadedWP[n].wpno_i) =
                  AggregatesOf(MatcherRows, LoadedWP[n].wpno_i)
            /\ \A i \in 1..(Len(LoadedWP) - 1) :
                  AggregatesOf(MatchOf(Swapped(LoadedWP, i)), LoadedWP[n].wpno_i) =
                      AggregatesOf(MatcherRows, LoadedWP[n].wpno_i)

\* two work packages with different keys whose HEURISTIC rows count the
\* same unkeyed line item
C26_Witness ==
    /\ MasterBuilt /\ Len(LoadedWP) = 2
    /\ \E c \in Range(LoadedItems) :
          /\ ~Keyed(c)
          /\ \E i \in HeuristicRowsFor(LoadedWP[1]) : c.index \in MatcherRows[i].matches_index
          /\ \E j \in HeuristicRowsFor(LoadedWP[2]) : c.index \in MatcherRows[j].matches_index

\* the file f can be stored under the session key k: it is readable, its
\* detected type is the type of k, and it has every required column of
\* that type
AcceptedAs(f, k) ==
    /\ f.readable
    /\ \E ty \in DOMAIN REQUIRED_FILES :
          /\ REQUIRED_FILES[ty].session_key = k
          /\ detect_file_type(f.columns) = ty
          /\ REQUIRED_FILES[ty].required_columns \subseteq f.columns
Rejected(f) == \A k \in REQUIRED_KEYS : ~AcceptedAs(f, k)

C28_ClearedUntilUploadedAgain ==
    [][/\ ClearAll("A") => \A k \in REQUIRED_KEYS : ~session_state'["A"][k].ok
       /\ ~is_data_uploaded(session_state'["A"]) =>
             /\ get_master_view(session_state'["A"], cache').master = None
             /\ get_data_completeness(session_state'["A"], cache') = None
             /\ get_consumption_by_category(session_state'["A"], cache') = None
      ]_vars

\* C29: the master view a session obtained is the one built from that
\* session's own tables alone, as in a process where no other session ever
\* filled the loaders' cache.
C29_SessionIsolation ==
    \A s \in Sessions :
        master[s] # Unset =>
            master[s] = get_master_view(session_state[s], EmptyCache).master

\* C30: when the master view is a table in which fewer than 10 work
\* packages have consumption data (none included) and no saved model
\* exists, get_trained_model returns None after the 'insufficient data'
\* error and raises nothing.
C30_InsufficientDataGivesNone ==
    (master["A"].ok /\ Len(TrainingRows(master["A"])) < MinSamples) =>
        get_trained_model(FALSE, master["A"], cache["load_workpacks"][1].cols) =
            ModelResult("None",
                "Insufficient data for model training (need at least 10 samples)")
====
